---- MODULE Spec2Model ----
(***************************************************************************)
(* A model of the HCI transport layer, src/hci/src/hci_layer.c: the        *)
(* outbound command flow-control engine (command credits, the command and  *)
(* packet queues, the pending-response list and its watchdog alarm), the   *)
(* inbound per-type reassembly state machine with the event filter, and    *)
(* the start_up / shut_down lifecycle.                                     *)
(***************************************************************************)
EXTENDS Integers, Sequences, FiniteSets, TLC

VARIABLES
  \* ---- module-level state of hci_layer.c --------------------------------
  command_credits,                 \* static int command_credits
  command_queue,                   \* fixed_queue_t of waiting_command_t
  packet_queue,                    \* fixed_queue_t of BT_HDR (data packets)
  commands_pending_response,       \* list_t of waiting_command_t, oldest first
  commands_pending_response_lock,  \* the mutex: "free" or the name of its holder
  command_response_alarm,          \* [armed, remaining]: the 8 s watchdog
  epilog_alarm,                    \* [armed, remaining]: the 3 s epilog wait
  incoming_packets,                \* packet_receive_data_t per inbound type
  firmware_is_configured,
  has_shut_down,
  thread,                          \* "null", "running" or "stopped"
  \* ---- the two threads at the pending-response list ----------------------
  hci_pc,                          \* where the HCI thread is inside a handler, or "idle"
  hci_tmp,                         \* the handler's local wait_entry
  alarm_pc,                        \* where the alarm thread is inside command_timed_out
  list_access,                     \* the latest access to the list: by whom, under whose lock
  \* ---- the environment ----------------------------------------------------
  alive,                           \* FALSE once kill(getpid(), SIGKILL) ran
  hal_stream,                      \* per type: the packets the controller sent, by name
  hal_arrived,                     \* per type: how many of them the HAL holds or held
  hal_read,                        \* per type: how many read_data has handed over
  sd_pc,                           \* the caller of shut_down: "idle", "epilog_posted" or "join"
  \* ---- observation of the calls made on collaborators -------------------
  buf,                             \* per outbound buffer id: who holds it
  free_count,                      \* per outbound buffer id: buffer_allocator->free calls
  enqueued,                        \* command buffers in fixed_queue_enqueue order
  dispatched,                      \* buffers handed to fragment_and_dispatch, in order
  matched,                         \* command buffers whose entry get_waiting_command removed
  watchdog_fired,                  \* command_timed_out reached kill()
  last_filter,                     \* what the latest filter_incoming_event call did
  credit_window,                   \* the credits the latest command event set, and the
                                   \* commands dispatched since
  rx_log,                          \* per type: the packets that reached FINISHED
  rx_failed,                       \* per type: ordinals of the packets whose alloc failed
  packet_finished_calls,           \* per type: hal->packet_finished(type) calls
  collab_log,                      \* collaborator calls of start_up / shut_down
  sd_calls,                        \* shut_down calls since the latest start_up
  sessions,                        \* start_up calls so far
  last_fw,                         \* the latest firmware_config_callback: its argument and
                                   \* the argument it gave callbacks->preload_finished
  postload                         \* the postload chain: where it is, what
                                   \* send_async_command returned, and the
                                   \* controller->begin_acl_size_fetch calls

engine_vars == <<command_credits, command_queue, packet_queue,
                 commands_pending_response, commands_pending_response_lock,
                 command_response_alarm>>
life_vars   == <<epilog_alarm, firmware_is_configured, has_shut_down, thread,
                 sd_pc, collab_log, sd_calls, sessions, last_fw, postload>>
rx_vars     == <<incoming_packets, hal_stream, hal_arrived, hal_read,
                 rx_log, rx_failed, packet_finished_calls>>
obs_vars    == <<buf, free_count, enqueued, dispatched, matched,
                 watchdog_fired, last_filter, credit_window>>
thread_vars == <<hci_pc, hci_tmp, alarm_pc, list_access>>
vars == <<engine_vars, life_vars, rx_vars, obs_vars, thread_vars, alive>>

-----------------------------------------------------------------------------
\* Bounds of the model.
MaxBufs      == 2      \* outbound buffers (commands and data packets) the upper stack submits
TickMs       == 4000   \* how far one Tick advances the clock
MaxWirePkts  == 2      \* packets the controller sends in the reassembly specification
MaxAllocFail == 1      \* consecutive allocation failures inside one hal_says_data_ready call
MaxRxCmds    == 1      \* commands submitted in the reassembly specification
WideEdge     == 8      \* bytes at each end of a long packet that reach the HAL one by one
MaxSessions  == 2      \* start_up calls in the lifecycle specification
MaxShutDowns == 2      \* shut_down calls per session in the lifecycle specification

\* Program constants.
HCI_COMMAND_COMPLETE_EVT == 14
HCI_COMMAND_STATUS_EVT   == 15
PREAMBLE_BUFFER_SIZE     == 4
EPILOG_TIMEOUT_MS        == 3000
COMMAND_PENDING_TIMEOUT  == 8000
DATA_TYPE_ACL     == 2
DATA_TYPE_SCO     == 3
DATA_TYPE_EVENT   == 4
UINT16_MOD        == 65536
UINT8_MOD         == 256

InboundTypes == {DATA_TYPE_ACL, DATA_TYPE_SCO, DATA_TYPE_EVENT}

\* static const uint8_t preamble_sizes[]: command, ACL, SCO, event.
preamble_sizes == <<3, 4, 3, 2>>
PACKET_TYPE_TO_INDEX(type) == type - 1

Min(a, b) == IF a < b THEN a ELSE b
Max(a, b) == IF a < b THEN b ELSE a

-----------------------------------------------------------------------------
\* Alarms (alarm.h): alarm_set arms for a duration, alarm_cancel disarms.
alarm_idle == [armed |-> FALSE, remaining |-> 0]
alarm_set(ms) == [armed |-> TRUE, remaining |-> ms]
alarm_cancel == alarm_idle
alarm_expired(a) == a.armed /\ a.remaining = 0
alarm_running(a) == a.armed /\ a.remaining > 0
alarm_advance(a) ==
  IF alarm_running(a) THEN [a EXCEPT !.remaining = Max(0, a.remaining - TickMs)] ELSE a

-----------------------------------------------------------------------------
\* Byte streams (STREAM_TO_UINT8 / STREAM_TO_UINT16 of the stack's macros).
\* A read at a position outside the packet's allocation is undefined: it yields
\* whatever byte the caller supplies in junk.
Uninit == -1
StreamByte(data, i, junk) ==
  IF i < Len(data) /\ data[i + 1] # Uninit THEN data[i + 1] ELSE junk[i + 1]
STREAM_TO_UINT8(data, i, junk) == StreamByte(data, i, junk) % UINT8_MOD
STREAM_TO_UINT16(data, i, junk) ==
  (StreamByte(data, i, junk) + 256 * StreamByte(data, i + 1, junk)) % UINT16_MOD

NoJunk == <<0, 0, 0, 0, 0, 0>>

-----------------------------------------------------------------------------
\* The pending-response list and its watchdog.

\* waiting_command_t: the command buffer (by id), its opcode and whether each
\* callback is non-NULL.
NoEntry == [command |-> 0, opcode |-> 0, complete_callback |-> FALSE, status_callback |-> FALSE]

RemoveAt(list, i) == SubSeq(list, 1, i - 1) \o SubSeq(list, i + 1, Len(list))

list_remove_every_opcode(list, data) == SelectSeq(list, LAMBDA e : e.opcode # data.opcode)

\* list_remove(list, data): unlinks the first node that holds data.
list_remove(list, data) ==
  IF \E i \in 1..Len(list) : list[i] = data
  THEN RemoveAt(list, CHOOSE i \in 1..Len(list) :
                        list[i] = data /\ \A j \in 1..(i - 1) : list[j] # data)
  ELSE list

get_waiting_command_newest(list, opcode) ==
  IF \E i \in 1..Len(list) : list[i].opcode = opcode
  THEN LET i == CHOOSE k \in 1..Len(list) :
                  list[k].opcode = opcode /\ \A j \in (k + 1)..Len(list) : list[j].opcode # opcode
       IN  [found |-> TRUE, wait_entry |-> list[i], list |-> RemoveAt(list, i)]
  ELSE [found |-> FALSE, wait_entry |-> NoEntry, list |-> list]

\* get_waiting_command: scans from list_begin and removes the first entry whose
\* opcode matches; NULL when none does.
get_waiting_command(list, opcode) ==
  IF \E i \in 1..Len(list) : list[i].opcode = opcode
  THEN LET i == CHOOSE k \in 1..Len(list) :
                  list[k].opcode = opcode /\ \A j \in 1..(k - 1) : list[j].opcode # opcode
       IN  [found |-> TRUE, wait_entry |-> list[i], list |-> list_remove(list, list[i])]
  ELSE [found |-> FALSE, wait_entry |-> NoEntry, list |-> list]

\* restart_command_timeout_alarm: the value it leaves in command_response_alarm.
restart_always_arms(list) == alarm_set(COMMAND_PENDING_TIMEOUT)

restart_command_timeout_alarm(list) ==
  IF list = <<>> THEN alarm_cancel ELSE alarm_set(COMMAND_PENDING_TIMEOUT)

-----------------------------------------------------------------------------
\* The event filter.

B2N(b) == IF b THEN 1 ELSE 0

NotIntercepted(data, credits, list) ==
  [data |-> data, intercepted |-> FALSE, event_code |-> 0, is_complete |-> FALSE, credits |-> credits,
   opcode |-> 0, status |-> 0, found |-> FALSE, wait_entry |-> NoEntry, list |-> list,
   complete_cb_calls |-> 0, status_cb_calls |-> 0,
   packet_frees |-> 0, command_frees |-> 0, entry_frees |-> 0, alarm_restarts |-> 0]

filter_frees_always(event_code, found, wait_entry) ==
  IF found THEN [packet |-> 1, command |-> 1, entry |-> 1]
  ELSE [packet |-> 1, command |-> 0, entry |-> 0]

\* The part of filter_incoming_event after the label intercepted: the frees.
filter_frees(event_code, found, wait_entry) ==
  IF found
  THEN [packet  |-> B2N(event_code = HCI_COMMAND_STATUS_EVT \/ ~wait_entry.complete_callback),
        command |-> B2N(event_code = HCI_COMMAND_COMPLETE_EVT \/ ~wait_entry.status_callback),
        entry   |-> 1]
  ELSE [packet |-> 1, command |-> 0, entry |-> 0]

\* filter_incoming_event(packet): what it returns and what it does, as a record.
\* data is packet->data, credits and list the values of command_credits and
\* commands_pending_response on entry.
filter_incoming_event(data, junk, credits, list) ==
  LET event_code == STREAM_TO_UINT8(data, 0, junk)
      base == NotIntercepted(data, credits, list)
  IN  IF event_code = HCI_COMMAND_COMPLETE_EVT
      THEN LET new_credits == STREAM_TO_UINT8(data, 2, junk)
               opcode == STREAM_TO_UINT16(data, 3, junk)
               w == get_waiting_command(list, opcode)
               fr == filter_frees(event_code, w.found, w.wait_entry)
           IN  [base EXCEPT !.intercepted = TRUE, !.event_code = event_code,
                            !.is_complete = TRUE,
                            !.credits = new_credits, !.opcode = opcode,
                            !.found = w.found, !.wait_entry = w.wait_entry, !.list = w.list,
                            !.complete_cb_calls =
                               B2N(w.found /\ w.wait_entry.complete_callback),
                            !.packet_frees = fr.packet, !.command_frees = fr.command,
                            !.entry_frees = fr.entry, !.alarm_restarts = 1]
      ELSE IF event_code = HCI_COMMAND_STATUS_EVT
      THEN LET status == STREAM_TO_UINT8(data, 2, junk)
               new_credits == STREAM_TO_UINT8(data, 3, junk)
               opcode == STREAM_TO_UINT16(data, 4, junk)
               w == get_waiting_command(list, opcode)
               fr == filter_frees(event_code, w.found, w.wait_entry)
           IN  [base EXCEPT !.intercepted = TRUE, !.event_code = event_code,
                            !.credits = new_credits, !.opcode = opcode, !.status = status,
                            !.found = w.found, !.wait_entry = w.wait_entry, !.list = w.list,
                            !.status_cb_calls =
                               B2N(w.found /\ w.wait_entry.status_callback),
                            !.packet_frees = fr.packet, !.command_frees = fr.command,
                            !.entry_frees = fr.entry, !.alarm_restarts = 1]
      ELSE [base EXCEPT !.event_code = event_code]

-----------------------------------------------------------------------------
\* The inbound reassembler.

\* receive_state_t
BRAND_NEW == "BRAND_NEW"
PREAMBLE  == "PREAMBLE"
BODY      == "BODY"
IGNORE    == "IGNORE"
FINISHED  == "FINISHED"

\* BT_HDR *buffer: NULL, or the allocated data bytes (Uninit where nothing was
\* written yet) and the len field.
NullBuffer == [allocated |-> FALSE, data |-> <<>>, len |-> 0]

\* packet_receive_data_t after memset(incoming_packets, 0, ...).
ZeroContext ==
  [state |-> BRAND_NEW, bytes_remaining |-> 0,
   preamble |-> [i \in 1..PREAMBLE_BUFFER_SIZE |-> 0], index |-> 0, buffer |-> NullBuffer]

\* RETRIEVE_ACL_LENGTH(preamble)
RETRIEVE_ACL_LENGTH(preamble) == preamble[4] * 256 + preamble[3]

\* memcpy(dst + at, src, Len(src)), inside the allocation.
WriteBytes(data, at, src) ==
  SubSeq(data, 1, at) \o SubSeq(src, 1, Min(Len(src), Len(data) - at))
    \o SubSeq(data, at + Len(src) + 1, Len(data))

\* The body length the PREAMBLE state stores in bytes_remaining (a uint16_t).
body_length(type, preamble, byte) ==
  (IF type = DATA_TYPE_ACL THEN RETRIEVE_ACL_LENGTH(preamble) ELSE byte) % UINT16_MOD

\* case PREAMBLE (entered directly or by falling through from BRAND_NEW).
rx_preamble(type, inc0, byte, alloc_ok) ==
  LET inc1 == [inc0 EXCEPT !.preamble[inc0.index + 1] = byte,
                           !.index = (inc0.index + 1) % UINT16_MOD,
                           !.bytes_remaining = (inc0.bytes_remaining - 1) % UINT16_MOD]
  IN  IF inc1.bytes_remaining # 0 THEN inc1
      ELSE LET n == body_length(type, inc1.preamble, byte)
               inc2 == [inc1 EXCEPT !.bytes_remaining = n]
           IN  IF ~alloc_ok
               THEN [inc2 EXCEPT !.state = IF n = 0 THEN BRAND_NEW ELSE IGNORE]
               ELSE [inc2 EXCEPT
                       !.buffer = [allocated |-> TRUE, len |-> 0,
                                   data |-> WriteBytes([i \in 1..(inc1.index + n) |-> Uninit],
                                                       0, SubSeq(inc1.preamble, 1, inc1.index))],
                       !.state = IF n > 0 THEN BODY ELSE FINISHED]

\* case BODY: stores the byte, then one bulk read_data of up to bytes_remaining
\* bytes, of which the HAL holds rest.
\* hal->read_data(type, buffer, max_size, false) with held bytes waiting: the
\* number of bytes it hands over.
read_data(max_size, held) == Min(max_size, held)

rx_body(inc, byte, rest) ==
  LET index1 == (inc.index + 1) % UINT16_MOD
      rem1 == (inc.bytes_remaining - 1) % UINT16_MOD
      bytes_read == read_data(rem1, Len(rest))
      rem2 == (rem1 - bytes_read) % UINT16_MOD
      data1 == WriteBytes(inc.buffer.data, inc.index, <<byte>>)
      data2 == WriteBytes(data1, index1, SubSeq(rest, 1, bytes_read))
  IN  [inc |-> [inc EXCEPT !.buffer.data = data2,
                           !.index = (index1 + bytes_read) % UINT16_MOD,
                           !.bytes_remaining = rem2,
                           !.state = IF rem2 = 0 THEN FINISHED ELSE inc.state],
       bulk |-> bytes_read]

rx_ignore_one_short(inc) ==
  LET rem1 == (inc.bytes_remaining - 1) % UINT16_MOD
  IN  [inc EXCEPT !.bytes_remaining = rem1,
                  !.state = IF rem1 <= 1 THEN BRAND_NEW ELSE inc.state]

\* case IGNORE
rx_ignore(inc) ==
  LET rem1 == (inc.bytes_remaining - 1) % UINT16_MOD
  IN  [inc EXCEPT !.bytes_remaining = rem1,
                  !.state = IF rem1 = 0 THEN BRAND_NEW ELSE inc.state]

\* The switch of hal_says_data_ready on one byte: the context it leaves, how
\* many further bytes its bulk read took, and what the allocation did.
rx_byte(type, inc, byte, rest, alloc_ok) ==
  LET fresh == [inc EXCEPT !.bytes_remaining = preamble_sizes[PACKET_TYPE_TO_INDEX(type) + 1],
                           !.preamble = [i \in 1..PREAMBLE_BUFFER_SIZE |-> 0],
                           !.index = 0,
                           !.state = PREAMBLE]
      \* case BRAND_NEW falls through into case PREAMBLE
      cur == IF inc.state = BRAND_NEW THEN fresh ELSE inc
  IN  CASE cur.state = PREAMBLE ->
             [inc |-> rx_preamble(type, cur, byte, alloc_ok), bulk |-> 0,
              alloc_failed |-> cur.bytes_remaining = 1 /\ ~alloc_ok]
        [] cur.state = BODY ->
             LET r == rx_body(cur, byte, rest)
             IN  [inc |-> r.inc, bulk |-> r.bulk, alloc_failed |-> FALSE]
        [] cur.state = IGNORE ->
             [inc |-> rx_ignore(cur), bulk |-> 0, alloc_failed |-> FALSE]
        [] OTHER ->
             [inc |-> cur, bulk |-> 0, alloc_failed |-> FALSE]

RECURSIVE rx_loop_no_return(_, _, _, _, _, _)
rx_loop_no_return(type, inc, avail, nread, nfail, nfailed) ==
  IF avail = <<>>
  THEN [inc |-> inc, nread |-> nread, finished |-> FALSE,
        packet |-> NullBuffer, nfailed |-> nfailed]
  ELSE LET r == rx_byte(type, inc, Head(avail), Tail(avail), nfail = 0)
           taken == 1 + r.bulk
           rest == SubSeq(avail, taken + 1, Len(avail))
       IN  IF r.inc.state = FINISHED
           THEN LET more == rx_loop_no_return(
                              type, [r.inc EXCEPT !.buffer = NullBuffer, !.state = BRAND_NEW],
                              rest, nread + taken, nfail, nfailed)
                IN  [more EXCEPT !.finished = TRUE,
                                 !.packet = IF more.finished THEN more.packet
                                            ELSE [r.inc.buffer EXCEPT !.len = r.inc.index]]
           ELSE rx_loop_no_return(type, r.inc, rest, nread + taken,
                                  IF r.alloc_failed THEN nfail - 1 ELSE nfail,
                                  IF r.alloc_failed THEN nfailed + 1 ELSE nfailed)

\* The while loop of hal_says_data_ready(type) over the bytes the HAL holds
\* (avail): read_data hands over one byte per iteration until it returns 0 or a
\* packet reaches FINISHED. The first nfail allocations fail.
RECURSIVE rx_loop(_, _, _, _, _, _)
rx_loop(type, inc, avail, nread, nfail, nfailed) ==
  IF avail = <<>>
  THEN [inc |-> inc, nread |-> nread, finished |-> FALSE,
        packet |-> NullBuffer, nfailed |-> nfailed]
  ELSE LET r == rx_byte(type, inc, Head(avail), Tail(avail), nfail = 0)
           taken == 1 + r.bulk
       IN  IF r.inc.state = FINISHED
           THEN [inc |-> [r.inc EXCEPT !.buffer = NullBuffer, !.state = BRAND_NEW],
                 nread |-> nread + taken, finished |-> TRUE,
                 packet |-> [r.inc.buffer EXCEPT !.len = r.inc.index],
                 nfailed |-> nfailed]
           ELSE rx_loop(type, r.inc, SubSeq(avail, taken + 1, Len(avail)), nread + taken,
                        IF r.alloc_failed THEN nfail - 1 ELSE nfail,
                        IF r.alloc_failed THEN nfailed + 1 ELSE nfailed)

-----------------------------------------------------------------------------
\* Inputs of the model.

\* Commands the upper stack submits: opcode low byte, opcode high byte,
\* parameter length (opcodes 0x0101 and 0x0102).
CommandSet == { <<1, 1, 0>>, <<2, 1, 0>> }

\* The callbacks a caller passes to transmit_command: both or neither.
CallbackSet == { [complete |-> TRUE, status |-> TRUE], [complete |-> FALSE, status |-> FALSE] }

CreditSet == {0, 1, 2}

\* Events the controller sends as whole packets: command-complete and
\* command-status for the two opcodes and for 0xDEAD, an unrelated event, and
\* events shorter than the fields the filter parses.
OpcodeBytes == { <<1, 1>>, <<2, 1>>, <<173, 222>> }
CommandCompleteEvents ==
  { <<HCI_COMMAND_COMPLETE_EVT, 4, c, op[1], op[2], 0>> : c \in CreditSet, op \in OpcodeBytes }
CommandStatusEvents ==
  { <<HCI_COMMAND_STATUS_EVT, 4, 0, c, op[1], op[2]>> : c \in CreditSet, op \in OpcodeBytes }
OtherEvents == { <<5, 1, 0>> }
ShortEvents == { <<HCI_COMMAND_COMPLETE_EVT, 0>>, <<HCI_COMMAND_STATUS_EVT, 1, 0>> }
EventSet == CommandCompleteEvents \cup CommandStatusEvents \cup OtherEvents \cup ShortEvents

\* Bytes an out-of-bounds read may yield.
JunkBytes == {0, 1}
JunkSeqs == { <<0, 0, a, b, c, d>> : a \in JunkBytes, b \in JunkBytes,
                                       c \in JunkBytes, d \in JunkBytes }
\* The choices that differ at a position filter_incoming_event reads outside data.
JunkFor(data) ==
  { j \in JunkSeqs : /\ \A i \in 1..Min(Len(data), 6) : j[i] = 0
                     /\ data[1] = HCI_COMMAND_COMPLETE_EVT => j[6] = 0
                     /\ data[1] \notin {HCI_COMMAND_COMPLETE_EVT, HCI_COMMAND_STATUS_EVT}
                          => j = NoJunk }

-----------------------------------------------------------------------------
\* Interface functions: the outbound side.

Running == alive /\ thread = "running"

\* fixed_queue_enqueue(queue, item)
fixed_queue_push_front(queue, item) == <<item>> \o queue

fixed_queue_enqueue(queue, item) == Append(queue, item)

\* transmit_command(command, complete_callback, status_callback, context);
\* calloc_ok is whether osi_calloc returned a wait entry.
transmit_command(command, cb, calloc_ok) ==
  /\ UNCHANGED thread_vars
  /\ Running
  /\ Len(buf) < MaxBufs
  /\ LET id == Len(buf) + 1
         wait_entry == [command |-> id,
                        opcode |-> STREAM_TO_UINT16(command, 0, NoJunk),
                        complete_callback |-> cb.complete,
                        status_callback |-> cb.status]
     IN  IF ~calloc_ok
         THEN /\ buf' = Append(buf, "leaked")
              /\ UNCHANGED <<command_queue, enqueued>>
         ELSE /\ buf' = Append(buf, "command_queue")
              /\ command_queue' = fixed_queue_enqueue(command_queue, wait_entry)
              /\ enqueued' = Append(enqueued, id)
  /\ free_count' = Append(free_count, 0)
  /\ UNCHANGED <<command_credits, packet_queue, commands_pending_response,
                 commands_pending_response_lock, command_response_alarm,
                 life_vars, rx_vars, dispatched, matched, watchdog_fired, last_filter,
                 credit_window, alive>>

\* transmit_downward(type, data) with type other than MSG_STACK_TO_HC_HCI_CMD.
transmit_downward_data ==
  /\ UNCHANGED thread_vars
  /\ Running
  /\ Len(buf) < MaxBufs
  /\ buf' = Append(buf, "packet_queue")
  /\ free_count' = Append(free_count, 0)
  /\ packet_queue' = fixed_queue_enqueue(packet_queue, Len(buf) + 1)
  /\ UNCHANGED <<command_credits, command_queue, commands_pending_response,
                 commands_pending_response_lock, command_response_alarm,
                 life_vars, rx_vars, enqueued, dispatched, matched, watchdog_fired,
                 last_filter, credit_window, alive>>

\* transmit_downward(MSG_STACK_TO_HC_HCI_CMD, data)
transmit_downward_command(command, calloc_ok) ==
  transmit_command(command, [complete |-> FALSE, status |-> FALSE], calloc_ok)

-----------------------------------------------------------------------------
\* Event-loop handlers: the outbound side.

dequeue_last(queue) == [item |-> queue[Len(queue)], queue |-> SubSeq(queue, 1, Len(queue) - 1)]

\* fixed_queue_dequeue(queue)
fixed_queue_dequeue(queue) == [item |-> Head(queue), queue |-> Tail(queue)]

credits_not_checked(credits) == TRUE

\* the condition of the if in event_command_ready
credit_not_negative(credits) == credits >= 0

has_credit(credits) == credits > 0

\* event_command_ready(queue, context), run by the reactor when command_queue
\* holds an entry.
event_command_ready ==
  /\ UNCHANGED thread_vars
  /\ Running
  /\ command_queue # <<>>
  /\ commands_pending_response_lock = "free"
  /\ IF has_credit(command_credits)
     THEN LET d == fixed_queue_dequeue(command_queue)
              wait_entry == d.item
              list == Append(commands_pending_response, wait_entry)
          IN  /\ command_queue' = d.queue
              /\ command_credits' = command_credits - 1
              /\ commands_pending_response' = list
              /\ dispatched' = Append(dispatched, wait_entry.command)
              /\ buf' = [buf EXCEPT ![wait_entry.command] = "pending"]
              /\ command_response_alarm' = restart_command_timeout_alarm(list)
              /\ credit_window' = [credit_window EXCEPT !.dispatched = @ + 1]
     ELSE UNCHANGED <<command_queue, command_credits, commands_pending_response,
                      dispatched, buf, command_response_alarm, credit_window>>
  /\ UNCHANGED <<packet_queue, commands_pending_response_lock, life_vars, rx_vars,
                 free_count, enqueued, matched, watchdog_fired, last_filter, alive>>

\* event_packet_ready(queue, context), run by the reactor when packet_queue
\* holds a packet.
event_packet_ready ==
  /\ UNCHANGED thread_vars
  /\ Running
  /\ packet_queue # <<>>
  /\ LET d == fixed_queue_dequeue(packet_queue)
     IN  /\ packet_queue' = d.queue
         /\ dispatched' = Append(dispatched, d.item)
         /\ buf' = [buf EXCEPT ![d.item] = "fragmenter"]
  /\ UNCHANGED <<command_credits, command_queue, commands_pending_response,
                 commands_pending_response_lock, command_response_alarm,
                 life_vars, rx_vars, free_count, enqueued, matched, watchdog_fired,
                 last_filter, credit_window, alive>>

\* command_timed_out(context), the callback of command_response_alarm.
command_timed_out ==
  /\ UNCHANGED thread_vars
  /\ alive
  /\ alarm_expired(command_response_alarm)
  /\ commands_pending_response_lock = "free"
  /\ command_response_alarm' = alarm_idle
  /\ IF commands_pending_response = <<>>
     THEN \* returns with the mutex still locked
          /\ commands_pending_response_lock' = "command_timed_out"
          /\ UNCHANGED <<alive, watchdog_fired>>
     ELSE \* kill(getpid(), SIGKILL)
          /\ alive' = FALSE
          /\ watchdog_fired' = TRUE
          /\ UNCHANGED commands_pending_response_lock
  /\ UNCHANGED <<command_credits, command_queue, packet_queue, commands_pending_response,
                 life_vars, rx_vars, buf, free_count, enqueued, dispatched, matched,
                 last_filter, credit_window>>

\* Time passes: every running alarm gets TickMs closer to its expiry.
Tick ==
  /\ UNCHANGED thread_vars
  /\ alive
  /\ alarm_running(command_response_alarm) \/ alarm_running(epilog_alarm)
  /\ ~(alarm_expired(command_response_alarm) /\ commands_pending_response_lock = "free")
  /\ ~alarm_expired(epilog_alarm)
  /\ command_response_alarm' = alarm_advance(command_response_alarm)
  /\ epilog_alarm' = alarm_advance(epilog_alarm)
  /\ UNCHANGED <<command_credits, command_queue, packet_queue, commands_pending_response,
                 commands_pending_response_lock, incoming_packets,
                 firmware_is_configured, has_shut_down, thread, sd_pc, collab_log, sd_calls,
                 sessions, last_fw, postload,
                 hal_stream, hal_arrived, hal_read, rx_log, rx_failed,
                 packet_finished_calls, obs_vars, alive>>

-----------------------------------------------------------------------------
\* The HAL's data-ready callback.

rx_passes_everything_up(type, intercepted) == TRUE

\* The condition under which hal_says_data_ready hands a finished packet to
\* reassemble_and_dispatch: type != DATA_TYPE_EVENT || !filter_incoming_event(..)
rx_passes_up(type, intercepted) == type # DATA_TYPE_EVENT \/ ~intercepted

\* hal_says_data_ready(type) when the HAL holds the bytes avail for type: the
\* loop, and for a finished packet the capture, the filter and the hand-over.
\* The first nfail allocations of the call fail. observe_rx says whether the
\* call is recorded in hal_read, rx_log and rx_failed, observe_filter whether the
\* filter's doings are recorded in last_filter.
hal_says_data_ready_on(type, avail, nfail, observe_rx, observe_filter) ==
  \E r \in {rx_loop(type, incoming_packets[type], avail, 0, nfail, 0)} :
  \E seen \in {Len(rx_log[type]) + Cardinality(rx_failed[type])} :
      /\ UNCHANGED thread_vars
      /\ Running
      /\ incoming_packets' = [incoming_packets EXCEPT ![type] = r.inc]
      /\ IF observe_rx
         THEN /\ hal_read' = [hal_read EXCEPT ![type] = @ + r.nread]
              /\ rx_failed' = [rx_failed EXCEPT ![type] = @ \cup ((seen + 1)..(seen + r.nfailed))]
         ELSE UNCHANGED <<hal_read, rx_failed>>
      /\ packet_finished_calls' =
           IF observe_rx /\ r.finished
           THEN [packet_finished_calls EXCEPT ![type] = @ + 1]
           ELSE packet_finished_calls
      /\ IF r.finished /\ type = DATA_TYPE_EVENT
         THEN \E junk \in JunkFor(r.packet.data) :
              \E f \in {filter_incoming_event(r.packet.data, junk, command_credits,
                                               commands_pending_response)} :
              \E id \in {f.wait_entry.command} :
                    /\ f.intercepted => commands_pending_response_lock = "free"
                    /\ command_credits' = f.credits
                    /\ commands_pending_response' = f.list
                    /\ command_response_alarm' =
                         IF f.intercepted THEN restart_command_timeout_alarm(f.list)
                         ELSE command_response_alarm
                    /\ last_filter' = IF observe_filter THEN f ELSE last_filter
                    /\ credit_window' = IF f.intercepted
                                        THEN [credits |-> f.credits, dispatched |-> 0]
                                        ELSE credit_window
                    /\ matched' = IF f.found THEN matched \cup {id} ELSE matched
                    /\ buf' = IF ~f.found THEN buf
                              ELSE [buf EXCEPT ![id] = IF f.status_cb_calls > 0
                                                       THEN "status_callback" ELSE "freed"]
                    /\ free_count' = IF ~f.found THEN free_count
                                     ELSE [free_count EXCEPT ![id] = @ + f.command_frees]
                    /\ rx_log' =
                         IF observe_rx
                         THEN [rx_log EXCEPT ![type] =
                                 Append(@, [data |-> r.packet.data, len |-> r.packet.len,
                                            captures |-> 1, filter_calls |-> 1,
                                            intercepted |-> f.intercepted,
                                            passed_up |-> rx_passes_up(type, f.intercepted)])]
                         ELSE rx_log
         ELSE /\ rx_log' =
                   IF observe_rx /\ r.finished
                   THEN [rx_log EXCEPT ![type] =
                           Append(@, [data |-> r.packet.data, len |-> r.packet.len,
                                      captures |-> 1, filter_calls |-> 0,
                                      intercepted |-> FALSE,
                                      passed_up |-> rx_passes_up(type, FALSE)])]
                   ELSE rx_log
              /\ UNCHANGED <<command_credits, commands_pending_response,
                             command_response_alarm, last_filter, credit_window,
                             matched, buf, free_count>>
      /\ UNCHANGED <<command_queue, packet_queue, commands_pending_response_lock,
                     life_vars, hal_stream, hal_arrived, enqueued, dispatched,
                     watchdog_fired, alive>>

\* The HAL receives one whole event packet from the controller and calls
\* hal_says_data_ready(DATA_TYPE_EVENT) for it.
hal_event_ready(packet, nfail) ==
  hal_says_data_ready_on(DATA_TYPE_EVENT, packet, nfail, FALSE, FALSE)

-----------------------------------------------------------------------------
\* The running session: the state start_up leaves, and the handlers of the
\* event loop with whole events arriving from the controller.

NoFilter == NotIntercepted(<<>>, 1, <<>>)
FirstWindow == [credits |-> 1, dispatched |-> 0]
NoAccess == [op |-> "none", thread |-> "none", lock |-> "free"]
NoLocals == [event_code |-> 0, found |-> FALSE, wait_entry |-> NoEntry, packet |-> <<>>]
NoFirmwareCallback == [called |-> FALSE, success |-> FALSE, preload_finished |-> FALSE]
NoPostload == [pc |-> "idle", ret |-> 0, begin_acl_size_fetch |-> 0]

Init ==
  /\ command_credits = 1
  /\ command_queue = <<>>
  /\ packet_queue = <<>>
  /\ commands_pending_response = <<>>
  /\ commands_pending_response_lock = "free"
  /\ command_response_alarm = alarm_idle
  /\ epilog_alarm = alarm_idle
  /\ incoming_packets = [t \in InboundTypes |-> ZeroContext]
  /\ firmware_is_configured = FALSE
  /\ has_shut_down = FALSE
  /\ thread = "running"
  /\ alive = TRUE
  /\ hal_stream = [t \in InboundTypes |-> <<>>]
  /\ hal_arrived = [t \in InboundTypes |-> 0]
  /\ hal_read = [t \in InboundTypes |-> 0]
  /\ sd_pc = "idle"
  /\ buf = <<>>
  /\ free_count = <<>>
  /\ enqueued = <<>>
  /\ dispatched = <<>>
  /\ matched = {}
  /\ watchdog_fired = FALSE
  /\ last_filter = NoFilter
  /\ credit_window = FirstWindow
  /\ rx_log = [t \in InboundTypes |-> <<>>]
  /\ rx_failed = [t \in InboundTypes |-> {}]
  /\ packet_finished_calls = [t \in InboundTypes |-> 0]
  /\ collab_log = <<>>
  /\ sd_calls = 0
  /\ sessions = 1
  /\ last_fw = NoFirmwareCallback
  /\ postload = NoPostload
  /\ hci_pc = "idle"
  /\ hci_tmp = NoLocals
  /\ alarm_pc = "idle"
  /\ list_access = NoAccess

Next ==
  \/ \E c \in CommandSet, cb \in CallbackSet, ok \in BOOLEAN : transmit_command(c, cb, ok)
  \/ \E c \in CommandSet, ok \in BOOLEAN : transmit_downward_command(c, ok)
  \/ transmit_downward_data
  \/ event_command_ready
  \/ event_packet_ready
  \/ \E e \in EventSet, nfail \in 0..1 : hal_event_ready(e, nfail)
  \/ Tick
  \/ command_timed_out

Spec == Init /\ [][Next]_vars

\* The same session with the scheduling the reactor and the alarm thread give:
\* a ready queue handler runs, time passes, and an expired alarm's callback runs.
\* The controller and the upper stack owe nothing.
FairSpec ==
  /\ Spec
  /\ WF_vars(Tick)
  /\ WF_vars(command_timed_out)
  /\ WF_vars(event_command_ready)
  /\ WF_vars(event_packet_ready)

-----------------------------------------------------------------------------
\* Properties of the running session.

Range(seq) == { seq[i] : i \in 1..Len(seq) }
IsPending(id) == \E i \in 1..Len(commands_pending_response) :
                    commands_pending_response[i].command = id
DispatchedCommands == SelectSeq(dispatched, LAMBDA id : id \in Range(enqueued))

\* The credit byte of a command-complete / command-status event, where the
\* packet holds one.
HasCreditByte(e) ==
  \/ e[1] = HCI_COMMAND_COMPLETE_EVT /\ Len(e) >= 3
  \/ e[1] = HCI_COMMAND_STATUS_EVT /\ Len(e) >= 4
CreditByte(e) == IF e[1] = HCI_COMMAND_COMPLETE_EVT THEN e[3] ELSE e[4]

\* A step in which event_command_ready dispatched the head of the command queue.
DispatchStep ==
  /\ command_queue # <<>>
  /\ command_queue' = Tail(command_queue)
  /\ dispatched' = Append(dispatched, Head(command_queue).command)

\* A step in which hal_says_data_ready finished the event e and the filter ran.
FilterStepFor(e) ==
  /\ e[1] \in {HCI_COMMAND_COMPLETE_EVT, HCI_COMMAND_STATUS_EVT}
  /\ incoming_packets'[DATA_TYPE_EVENT].state = BRAND_NEW
  /\ incoming_packets'[DATA_TYPE_EVENT].index = Len(e)
  /\ SubSeq(incoming_packets'[DATA_TYPE_EVENT].preamble, 1, 2) = SubSeq(e, 1, 2)
  /\ dispatched' = dispatched

\* C1: command_credits is never negative, and a step changes it only by a
\* decrement of exactly 1 when event_command_ready dispatches a command, or by
\* replacing it with the credit byte (0..255) of a command-complete or
\* command-status event that the filter saw; nothing is added to it.
C1_CreditsOnlyDecrementedOrReplaced ==
  [][ /\ command_credits >= 0
      /\ command_credits' >= 0
      /\ command_credits' # command_credits =>
           \/ DispatchStep /\ command_credits' = command_credits - 1
           \/ \E e \in EventSet :
                /\ FilterStepFor(e)
                /\ command_credits' \in 0..255
                /\ HasCreditByte(e) => command_credits' = CreditByte(e) ]_vars

\* C1 witness: an event has set the credits to 2 after a command was dispatched.
C1_Witness == command_credits = 2 /\ dispatched # <<>> /\ matched # {}

\* C2: every dispatched command is eventually matched by a command-complete or
\* command-status event of its opcode and removed from the pending-response
\* list, or the watchdog terminates the process.
C2_DispatchedCommandResolved ==
  \A id \in 1..MaxBufs : IsPending(id) ~> (id \in matched \/ watchdog_fired)

\* C4: a command is in the pending-response list of the running process exactly
\* when event_command_ready dispatched it, no event was matched to it and the
\* watchdog has not fired.
C4_PendingIffDispatchedUnmatched ==
  \A id \in 1..Len(buf) :
    (alive /\ IsPending(id)) <=>
      (id \in Range(DispatchedCommands) /\ id \notin matched /\ ~watchdog_fired)

\* C4 witness: one command was matched and removed while a later one is pending.
C4_Witness ==
  \E a, b \in 1..Len(buf) : a \in matched /\ ~IsPending(a) /\ IsPending(b) /\ alive

\* C5: the commands handed to fragment_and_dispatch are, in order, the first
\* commands that were enqueued on the command queue: none twice, none skipped.
C5_CommandsDispatchedInEnqueueOrder ==
  /\ Len(DispatchedCommands) <= Len(enqueued)
  /\ DispatchedCommands = SubSeq(enqueued, 1, Len(DispatchedCommands))

\* C5 witness: two commands were dispatched, the second after an event
\* refreshed the credits.
C5_Witness == Len(DispatchedCommands) >= 2

-----------------------------------------------------------------------------
\* The event filter under observation: the commands of a session, the events
\* of the controller, and a record of what each filter call did.

hal_event_observed(packet) ==
  hal_says_data_ready_on(DATA_TYPE_EVENT, packet, 0, FALSE, TRUE)

NextFilter ==
  \/ \E c \in CommandSet, cb \in CallbackSet : transmit_command(c, cb, TRUE)
  \/ event_command_ready
  \/ \E e \in EventSet : hal_event_observed(e)

SpecFilter == Init /\ [][NextFilter]_vars

\* The opcode field of a command-complete / command-status event, where the
\* packet holds one: bytes 3-4, resp. 4-5, little-endian.
IsCommandEvent(e) ==
  e # <<>> /\ e[1] \in {HCI_COMMAND_COMPLETE_EVT, HCI_COMMAND_STATUS_EVT}
HasOpcodeField(e) ==
  \/ e[1] = HCI_COMMAND_COMPLETE_EVT /\ Len(e) >= 5
  \/ e[1] = HCI_COMMAND_STATUS_EVT /\ Len(e) >= 6
OpcodeField(e) ==
  IF e[1] = HCI_COMMAND_COMPLETE_EVT THEN e[4] + 256 * e[5] ELSE e[5] + 256 * e[6]

RECURSIVE WithoutOldest(_, _)
WithoutOldest(list, opcode) ==
  IF list = <<>> THEN <<>>
  ELSE IF Head(list).opcode = opcode THEN Tail(list)
  ELSE <<Head(list)>> \o WithoutOldest(Tail(list), opcode)

\* A step of SpecFilter in which hal_says_data_ready ran the filter.
FilterStep == Len(buf') = Len(buf) /\ dispatched' = dispatched

\* C3: a filter call removes from the pending-response list exactly the oldest
\* entry with the event's opcode when the event is command-complete or
\* command-status and some entry has that opcode, keeping everything else in
\* order; for any other event it leaves the list as it is. The list shrinks by
\* 0 or 1.
C3_FilterRemovesOldestMatchOrNothing ==
  [][ FilterStep =>
        LET e == last_filter'.data
            before == commands_pending_response
            after == commands_pending_response'
        IN  /\ Len(before) - Len(after) \in {0, 1}
            /\ (IsCommandEvent(e) /\ HasOpcodeField(e)) =>
                 after = WithoutOldest(before, OpcodeField(e))
            /\ ~IsCommandEvent(e) => after = before
            /\ \/ after = before
               \/ \E i \in 1..Len(before) : after = RemoveAt(before, i) ]_vars

\* C3 witness: of two pending commands with the same opcode the older one was
\* matched and the newer one is still pending.
C3_Witness ==
  /\ last_filter.found
  /\ \E i \in 1..Len(commands_pending_response) :
       /\ commands_pending_response[i].opcode = last_filter.wait_entry.opcode
       /\ commands_pending_response[i].command > last_filter.wait_entry.command

\* C7: in every intercepted event each buffer has one disposition. The event
\* packet goes to the completion callback iff the event is command-complete and
\* the matched entry has one, and is freed once otherwise; the command buffer of
\* a matched entry goes to the status callback iff the event is command-status
\* and the entry has one, and is freed once otherwise; the wait entry is freed
\* once iff an entry matched. No command buffer is freed twice.
C7_OneDispositionPerBuffer ==
  LET f == last_filter
      to_complete_cb == f.event_code = HCI_COMMAND_COMPLETE_EVT /\ f.found
                          /\ f.wait_entry.complete_callback
      to_status_cb == f.event_code = HCI_COMMAND_STATUS_EVT /\ f.found
                          /\ f.wait_entry.status_callback
  IN  /\ f.intercepted =>
            /\ f.complete_cb_calls = B2N(to_complete_cb)
            /\ f.packet_frees = B2N(~to_complete_cb)
            /\ f.status_cb_calls = B2N(to_status_cb)
            /\ f.command_frees = B2N(f.found /\ ~to_status_cb)
            /\ f.entry_frees = B2N(f.found)
      /\ ~f.intercepted =>
            f.complete_cb_calls + f.status_cb_calls + f.packet_frees
              + f.command_frees + f.entry_frees = 0
      /\ \A id \in 1..Len(buf) :
            /\ free_count[id] <= 1
            /\ free_count[id] = 1 <=> buf[id] = "freed"
            /\ buf[id] = "status_callback" => free_count[id] = 0

\* C7 witness: a command-status event matched an entry with a status callback,
\* so the command went to the callback and the packet was freed.
C7_Witness ==
  /\ last_filter.status_cb_calls = 1
  /\ last_filter.packet_frees = 1
  /\ last_filter.command_frees = 0
  /\ \E id \in 1..Len(buf) : buf[id] = "freed"

-----------------------------------------------------------------------------
\* The reassembler under observation: the controller sends packets of the
\* three inbound types, their bytes reach the HAL a few at a time, and the HAL
\* calls hal_says_data_ready whenever it likes.

\* The packets the controller can send, per type; hal_stream names them by
\* their place in these lists. The last ACL packet has the longest body an ACL
\* preamble can announce.
WideAclPacket ==
  <<1, 32, UINT8_MOD - 1, UINT8_MOD - 1>> \o [i \in 1..(UINT16_MOD - 1) |-> i % 251]
RxEventMenu == << <<HCI_COMMAND_COMPLETE_EVT, 4, 1, 1, 1, 0>>,
                  <<HCI_COMMAND_STATUS_EVT, 4, 0, 1, 1, 1>>,
                  <<5, 3, 1, 2, 3>>, <<5, 0>> >>
RxAclMenu   == << <<1, 32, 0, 0>>, <<1, 32, 2, 0, 170, 187>>, WideAclPacket >>
RxScoMenu   == << <<1, 0, 0>>, <<1, 0, 1, 7>> >>
RxMenu(type) ==
  CASE type = DATA_TYPE_EVENT -> RxEventMenu
    [] type = DATA_TYPE_ACL -> RxAclMenu
    [] type = DATA_TYPE_SCO -> RxScoMenu
WideAclId == Len(RxAclMenu)
\* The packets short enough to be sent in any number and order.
RxShortIds(type) ==
  { i \in 1..Len(RxMenu(type)) : type = DATA_TYPE_ACL => i # WideAclId }

\* The bytes of the packets named by ids.
RECURSIVE BytesOf(_, _)
BytesOf(menu, ids) ==
  IF ids = <<>> THEN <<>> ELSE menu[Head(ids)] \o BytesOf(menu, Tail(ids))
\* Every byte the controller sent for the type.
wire_bytes(type) == BytesOf(RxMenu(type), hal_stream[type])

\* The packets of a byte stream of one type, by the rules of the wire format:
\* a preamble of fixed size, whose length field gives the size of the body.
PreambleSize(type) ==
  CASE type = DATA_TYPE_EVENT -> 2
    [] type = DATA_TYPE_ACL -> 4
    [] type = DATA_TYPE_SCO -> 3
BodyLengthRule(type, pre) ==
  IF type = DATA_TYPE_ACL THEN pre[3] + 256 * pre[4] ELSE pre[Len(pre)]
HasWholePacket(type, s) ==
  /\ Len(s) >= PreambleSize(type)
  /\ Len(s) >= PreambleSize(type) + BodyLengthRule(type, SubSeq(s, 1, PreambleSize(type)))
FirstPacketLen(type, s) ==
  PreambleSize(type) + BodyLengthRule(type, SubSeq(s, 1, PreambleSize(type)))
RECURSIVE ParsePackets(_, _)
ParsePackets(type, s) ==
  IF ~HasWholePacket(type, s) THEN <<>>
  ELSE <<SubSeq(s, 1, FirstPacketLen(type, s))>>
         \o ParsePackets(type, SubSeq(s, FirstPacketLen(type, s) + 1, Len(s)))
RECURSIVE PartialTail(_, _)
PartialTail(type, s) ==
  IF ~HasWholePacket(type, s) THEN s
  ELSE PartialTail(type, SubSeq(s, FirstPacketLen(type, s) + 1, Len(s)))

PacketsSent ==
  Len(hal_stream[DATA_TYPE_EVENT]) + Len(hal_stream[DATA_TYPE_ACL])
  + Len(hal_stream[DATA_TYPE_SCO])

\* The controller puts the packet named packet on the wire.
controller_sends(type, packet) ==
  /\ UNCHANGED thread_vars
  /\ Running
  /\ PacketsSent < MaxWirePkts
  /\ hal_stream' = [hal_stream EXCEPT ![type] = Append(@, packet)]
  /\ UNCHANGED <<engine_vars, life_vars, incoming_packets, hal_arrived, hal_read,
                 rx_log, rx_failed, packet_finished_calls, obs_vars, alive>>

\* n more bytes of the wire reach the HAL's buffer for the type.
hal_receives(type, n) ==
  /\ UNCHANGED thread_vars
  /\ Running
  /\ n >= 1
  /\ hal_arrived[type] + n <= Len(wire_bytes(type))
  /\ hal_arrived' = [hal_arrived EXCEPT ![type] = @ + n]
  /\ UNCHANGED <<engine_vars, life_vars, incoming_packets, hal_stream, hal_read,
                 rx_log, rx_failed, packet_finished_calls, obs_vars, alive>>

\* What read_data can hand over for the type.
hal_available(type) == SubSeq(wire_bytes(type), hal_read[type] + 1, hal_arrived[type])

\* hal_says_data_ready(type), called by the HAL.
hal_says_data_ready(type, nfail) ==
  hal_says_data_ready_on(type, hal_available(type), nfail, TRUE, FALSE)

\* transmit_command within the bound of this specification.
rx_transmit_command(command) ==
  /\ Len(buf) < MaxRxCmds
  /\ transmit_command(command, [complete |-> TRUE, status |-> TRUE], TRUE)

NextRx ==
  \/ \E t \in InboundTypes : \E p \in RxShortIds(t) : controller_sends(t, p)
  \/ \E t \in InboundTypes, n \in 1..6 : hal_receives(t, n)
  \/ \E t \in InboundTypes, nfail \in 0..MaxAllocFail : hal_says_data_ready(t, nfail)
  \/ rx_transmit_command(<<1, 1, 0>>)
  \/ event_command_ready

SpecRx == Init /\ [][NextRx]_vars

-----------------------------------------------------------------------------
\* The reassembler with an ACL packet of the longest body its preamble can
\* announce. The bytes near both ends of the packet reach the HAL one at a
\* time, the middle in one piece.

controller_sends_wide ==
  /\ hal_stream[DATA_TYPE_ACL] = <<>>
  /\ controller_sends(DATA_TYPE_ACL, WideAclId)

hal_receives_wide(n) ==
  /\ \/ n = 1 /\ hal_arrived[DATA_TYPE_ACL] < WideEdge
     \/ n = 1 /\ hal_arrived[DATA_TYPE_ACL] >= Len(WideAclPacket) - WideEdge
     \/ n = Len(WideAclPacket) - 2 * WideEdge /\ hal_arrived[DATA_TYPE_ACL] = WideEdge
     \/ n = Len(WideAclPacket) /\ hal_arrived[DATA_TYPE_ACL] = 0
  /\ hal_receives(DATA_TYPE_ACL, n)

NextRxWide ==
  \/ controller_sends_wide
  \/ \E n \in {1, Len(WideAclPacket) - 2 * WideEdge, Len(WideAclPacket)} : hal_receives_wide(n)
  \/ hal_says_data_ready(DATA_TYPE_ACL, 0)

SpecRxWide == Init /\ [][NextRxWide]_vars

-----------------------------------------------------------------------------
\* Claims about the reassembler.

ReadSoFar(type) == SubSeq(wire_bytes(type), 1, hal_read[type])

\* The ordinals, in stream order, of the whole packets read so far whose
\* allocation did not fail.
RECURSIVE KeepOrdinals(_, _, _)
KeepOrdinals(pk, from, failed) ==
  IF pk = <<>> THEN <<>>
  ELSE (IF from \in failed THEN <<>> ELSE <<Head(pk)>>)
         \o KeepOrdinals(Tail(pk), from + 1, failed)

RxData(type) == [i \in 1..Len(rx_log[type]) |-> rx_log[type][i].data]

\* The context of a type against the bytes read since the last whole packet.
ContextFollowsTail(type, tail) ==
  LET inc == incoming_packets[type]
      p == PreambleSize(type)
  IN  /\ tail = <<>> => inc.state = BRAND_NEW /\ ~inc.buffer.allocated
      /\ (tail # <<>> /\ Len(tail) < p) =>
            /\ inc.state = PREAMBLE
            /\ inc.index = Len(tail)
            /\ SubSeq(inc.preamble, 1, Len(tail)) = tail
            /\ inc.bytes_remaining = p - Len(tail)
      /\ Len(tail) >= p =>
            /\ inc.state = BODY
            /\ inc.index = Len(tail)
            /\ SubSeq(inc.buffer.data, 1, Len(tail)) = tail
            /\ inc.bytes_remaining = BodyLengthRule(type, SubSeq(tail, 1, p)) - (Len(tail) - p)

\* C6 (hal_says_data_ready): every completed EVENT packet went through the
\* filter once, the filter returned true exactly for the codes 0x0E and 0x0F,
\* and the packet was handed to reassemble_and_dispatch exactly when the filter
\* returned false; every completed ACL and SCO packet was handed up without a
\* filter call.
C6_FilterDecidesEventHandOver ==
  \A t \in InboundTypes : \A i \in 1..Len(rx_log[t]) :
    LET e == rx_log[t][i]
    IN  IF t = DATA_TYPE_EVENT
        THEN /\ e.filter_calls = 1
             /\ e.intercepted <=> e.data[1] \in {HCI_COMMAND_COMPLETE_EVT, HCI_COMMAND_STATUS_EVT}
             /\ e.passed_up <=> ~e.intercepted
        ELSE e.filter_calls = 0 /\ e.passed_up
C6_Witness ==
  /\ \E i \in 1..Len(rx_log[DATA_TYPE_EVENT]) :
       rx_log[DATA_TYPE_EVENT][i].intercepted /\ matched # {}
  /\ \E i \in 1..Len(rx_log[DATA_TYPE_EVENT]) :
       ~rx_log[DATA_TYPE_EVENT][i].intercepted /\ rx_log[DATA_TYPE_EVENT][i].passed_up

\* C9 (hal_says_data_ready): however the bytes of a type were split over
\* arrivals and calls, the packets completed so far are the packets of the
\* bytes read so far, each with len equal to its preamble size plus the body
\* length its preamble gives and holding the delivered bytes in order, and the
\* context holds exactly the bytes read since the last whole packet.
C9_ReassemblyIndependentOfSplitting ==
  \A t \in InboundTypes :
    rx_failed[t] = {} =>
      /\ RxData(t) = ParsePackets(t, ReadSoFar(t))
      /\ \A i \in 1..Len(rx_log[t]) : rx_log[t][i].len = Len(rx_log[t][i].data)
      /\ ContextFollowsTail(t, PartialTail(t, ReadSoFar(t)))

\* C10 (hal_says_data_ready): a packet whose allocation failed is never
\* emitted; while its body of n > 0 bytes is being discarded the context is in
\* IGNORE with bytes_remaining equal to the part of the body not yet read, and
\* once the body is read (at once when n = 0) the context is BRAND_NEW; the
\* packets emitted are exactly the other whole packets of the stream, in
\* order.
C10_AllocFailureSkipsExactlyThePacket ==
  \A t \in InboundTypes :
    LET pk == ParsePackets(t, ReadSoFar(t))
        tail == PartialTail(t, ReadSoFar(t))
        inc == incoming_packets[t]
        p == PreambleSize(t)
    IN  /\ RxData(t) = KeepOrdinals(pk, 1, rx_failed[t])
        /\ rx_failed[t] \subseteq 1..(Len(pk) + 1)
        /\ (Len(pk) + 1) \in rx_failed[t] =>
              /\ Len(tail) >= p
              /\ inc.state = IGNORE
              /\ ~inc.buffer.allocated
              /\ inc.bytes_remaining > 0
              /\ inc.bytes_remaining = BodyLengthRule(t, SubSeq(tail, 1, p)) - (Len(tail) - p)
        /\ (Len(pk) + 1) \notin rx_failed[t] => ContextFollowsTail(t, tail)
C10_Witness ==
  \E t \in InboundTypes :
    /\ rx_failed[t] = {1}
    /\ Len(ParsePackets(t, ReadSoFar(t))) = 2
    /\ Len(ParsePackets(t, ReadSoFar(t))[1]) > PreambleSize(t)
    /\ Len(rx_log[t]) = 1
    /\ rx_log[t][1].data = ParsePackets(t, ReadSoFar(t))[2]

-----------------------------------------------------------------------------
\* The lifecycle: start_up, the vendor's firmware callback, and shut_down, which
\* waits in thread_join while the HCI thread runs the epilog.

\* The module's statics before the first start_up.
InitLife ==
  /\ command_credits = 1
  /\ command_queue = <<>>
  /\ packet_queue = <<>>
  /\ commands_pending_response = <<>>
  /\ commands_pending_response_lock = "free"
  /\ command_response_alarm = alarm_idle
  /\ epilog_alarm = alarm_idle
  /\ incoming_packets = [t \in InboundTypes |-> ZeroContext]
  /\ firmware_is_configured = FALSE
  /\ has_shut_down = FALSE
  /\ thread = "null"
  /\ alive = TRUE
  /\ hal_stream = [t \in InboundTypes |-> <<>>]
  /\ hal_arrived = [t \in InboundTypes |-> 0]
  /\ hal_read = [t \in InboundTypes |-> 0]
  /\ sd_pc = "idle"
  /\ buf = <<>>
  /\ free_count = <<>>
  /\ enqueued = <<>>
  /\ dispatched = <<>>
  /\ matched = {}
  /\ watchdog_fired = FALSE
  /\ last_filter = NoFilter
  /\ credit_window = FirstWindow
  /\ rx_log = [t \in InboundTypes |-> <<>>]
  /\ rx_failed = [t \in InboundTypes |-> {}]
  /\ packet_finished_calls = [t \in InboundTypes |-> 0]
  /\ collab_log = <<>>
  /\ sd_calls = 0
  /\ sessions = 0
  /\ last_fw = NoFirmwareCallback
  /\ postload = NoPostload
  /\ hci_pc = "idle"
  /\ hci_tmp = NoLocals
  /\ alarm_pc = "idle"
  /\ list_access = NoAccess

\* The collaborator calls of a successful start_up, and of shut_down after
\* thread_join.
StartUpCalls ==
  <<"controller_init", "packet_fragmenter_init", "vendor_open", "hal_init",
    "low_power_manager_init", "hci_inject_open">>
TearDownCalls ==
  <<"fixed_queue_free", "fixed_queue_free", "list_free", "pthread_mutex_destroy",
    "packet_fragmenter_cleanup", "alarm_free", "alarm_free",
    "low_power_manager_cleanup", "hal_close", "set_chip_power_on", "vendor_close",
    "thread_free">>

\* What the frees of shut_down do to the outbound buffers: those in
\* packet_queue go to buffer_allocator->free, those of the wait entries in
\* command_queue and in commands_pending_response are not freed.
TearDownBuf(b, cq, pq, list) ==
  [id \in 1..Len(b) |->
     IF id \in { pq[i] : i \in 1..Len(pq) } THEN "freed"
     ELSE IF id \in { cq[i].command : i \in 1..Len(cq) }
               \cup { list[i].command : i \in 1..Len(list) } THEN "leaked"
     ELSE b[id]]
TearDownFrees(fc, pq) ==
  [id \in 1..Len(fc) |-> IF id \in { pq[i] : i \in 1..Len(pq) } THEN fc[id] + 1 ELSE fc[id]]

\* The part of shut_down after thread_join (or after if (thread) when thread is
\* NULL), as a conjunction over the primed variables it writes.
tear_down(log) ==
  /\ command_queue' = <<>>
  /\ packet_queue' = <<>>
  /\ commands_pending_response' = <<>>
  /\ buf' = TearDownBuf(buf, command_queue, packet_queue, commands_pending_response)
  /\ free_count' = TearDownFrees(free_count, packet_queue)
  /\ epilog_alarm' = alarm_idle
  /\ command_response_alarm' = alarm_idle
  /\ collab_log' = log \o TearDownCalls
  /\ thread' = "null"
  /\ firmware_is_configured' = FALSE
  /\ has_shut_down' = TRUE
  /\ sd_pc' = "idle"

\* start_up(local_bdaddr, upper_callbacks): alloc_ok is whether the alarms, the
\* queues and the thread could be created; if not, the error path calls
\* shut_down with thread still NULL.
start_up(alloc_ok) ==
  /\ UNCHANGED thread_vars
  /\ alive
  /\ thread = "null"
  /\ sd_pc = "idle"
  /\ sessions < MaxSessions
  /\ sessions' = sessions + 1
  /\ sd_calls' = 0
  /\ last_fw' = NoFirmwareCallback
  /\ postload' = NoPostload
  /\ command_credits' = 1
  /\ commands_pending_response_lock' = "free"
  /\ IF alloc_ok
     THEN /\ firmware_is_configured' = FALSE
          /\ has_shut_down' = FALSE
          /\ epilog_alarm' = alarm_idle
          /\ command_response_alarm' = alarm_idle
          /\ command_queue' = <<>>
          /\ packet_queue' = <<>>
          /\ thread' = "running"
          /\ commands_pending_response' = <<>>
          /\ incoming_packets' = [t \in InboundTypes |-> ZeroContext]
          /\ collab_log' = StartUpCalls
          /\ UNCHANGED <<sd_pc, buf, free_count>>
     ELSE /\ tear_down(<<"hci_inject_close">>)
          /\ UNCHANGED incoming_packets
  /\ credit_window' = FirstWindow
  /\ UNCHANGED <<rx_log, rx_failed, packet_finished_calls, hal_stream, hal_arrived,
                 hal_read,
                 enqueued, dispatched, matched, watchdog_fired, last_filter, alive>>

never_shut_down(flag) == FALSE

\* if (has_shut_down) at the head of shut_down
already_shut_down(flag) == flag

\* shut_down(), up to thread_join: returns at once when the session was shut
\* down already, else closes hci_inject and either starts the epilog (firmware
\* configured) or stops the thread, and then waits in thread_join.
shut_down ==
  /\ UNCHANGED thread_vars
  /\ alive
  /\ sd_pc = "idle"
  /\ sd_calls < MaxShutDowns
  /\ sd_calls' = sd_calls + 1
  /\ IF already_shut_down(has_shut_down)
     THEN UNCHANGED <<engine_vars, epilog_alarm, firmware_is_configured, has_shut_down,
                      thread, sd_pc, collab_log, buf, free_count>>
     ELSE IF thread = "null"
     THEN /\ tear_down(collab_log \o <<"hci_inject_close">>)
          /\ UNCHANGED <<command_credits, commands_pending_response_lock>>
     ELSE /\ IF firmware_is_configured
             THEN /\ epilog_alarm' = alarm_set(EPILOG_TIMEOUT_MS)
                  /\ sd_pc' = "epilog_posted"
                  /\ thread' = thread
                  /\ collab_log' = collab_log \o <<"hci_inject_close", "thread_post">>
             ELSE /\ epilog_alarm' = epilog_alarm
                  /\ sd_pc' = "join"
                  /\ thread' = "stopped"
                  /\ collab_log' = collab_log \o <<"hci_inject_close", "thread_stop">>
          /\ UNCHANGED <<engine_vars, firmware_is_configured, has_shut_down, buf, free_count>>
  /\ UNCHANGED <<incoming_packets, rx_log, rx_failed, packet_finished_calls,
                 hal_stream, hal_arrived, hal_read, sessions, last_fw, postload, enqueued,
                 dispatched, matched,
                 watchdog_fired, last_filter, credit_window, alive>>

\* event_epilog(context), posted by shut_down to the HCI thread.
event_epilog ==
  /\ UNCHANGED thread_vars
  /\ Running
  /\ hci_pc = "idle"
  /\ sd_pc = "epilog_posted"
  /\ sd_pc' = "join"
  /\ collab_log' = Append(collab_log, "vendor_do_epilog")
  /\ UNCHANGED <<engine_vars, epilog_alarm, firmware_is_configured, has_shut_down, thread,
                 sd_calls, sessions, last_fw, postload, rx_vars, obs_vars, alive>>

\* epilog_finished_callback(success), called by the vendor library after the
\* epilog command.
epilog_finished_callback ==
  /\ UNCHANGED thread_vars
  /\ alive
  /\ sd_pc = "join"
  /\ thread = "running"
  /\ thread' = "stopped"
  /\ collab_log' = Append(collab_log, "thread_stop")
  /\ UNCHANGED <<engine_vars, epilog_alarm, firmware_is_configured, has_shut_down, sd_pc,
                 sd_calls, sessions, last_fw, postload, rx_vars, obs_vars, alive>>

\* epilog_wait_timer_expired(context), the callback of epilog_alarm.
epilog_wait_timer_expired ==
  /\ UNCHANGED thread_vars
  /\ alive
  /\ alarm_expired(epilog_alarm)
  /\ thread # "null"
  /\ epilog_alarm' = alarm_idle
  /\ thread' = "stopped"
  /\ collab_log' = Append(collab_log, "thread_stop")
  /\ UNCHANGED <<engine_vars, firmware_is_configured, has_shut_down, sd_pc,
                 sd_calls, sessions, last_fw, postload, rx_vars, obs_vars, alive>>

\* shut_down() from the return of thread_join to its end.
shut_down_joined ==
  /\ UNCHANGED thread_vars
  /\ alive
  /\ sd_pc # "idle"
  /\ thread = "stopped"
  /\ hci_pc = "idle"
  /\ tear_down(Append(collab_log, "thread_join"))
  /\ UNCHANGED <<command_credits, commands_pending_response_lock, incoming_packets,
                 sd_calls, sessions, last_fw, postload, rx_log, rx_failed, packet_finished_calls,
                 hal_stream, hal_arrived, hal_read, enqueued, dispatched, matched,
                 watchdog_fired, last_filter, credit_window, alive>>

\* firmware_config_callback(success), called by the vendor library.
firmware_config_callback(success) ==
  /\ UNCHANGED thread_vars
  /\ Running
  /\ firmware_is_configured' = TRUE
  /\ last_fw' = [called |-> TRUE, success |-> success, preload_finished |-> TRUE]
  /\ collab_log' = IF "preload_finished" \in Range(collab_log) THEN collab_log
                   ELSE Append(collab_log, "preload_finished")
  /\ UNCHANGED <<engine_vars, epilog_alarm, has_shut_down, thread, sd_pc,
                 sd_calls, sessions, postload, rx_vars, obs_vars, alive>>

NextLife ==
  \/ \E ok \in BOOLEAN : start_up(ok)
  \/ shut_down
  \/ event_epilog
  \/ epilog_finished_callback
  \/ epilog_wait_timer_expired
  \/ shut_down_joined
  \/ \E success \in BOOLEAN : firmware_config_callback(success)
  \/ \E c \in CommandSet : transmit_command(c, [complete |-> TRUE, status |-> TRUE], TRUE)
  \/ transmit_downward_data
  \/ event_command_ready
  \/ Tick

SpecLife == InitLife /\ [][NextLife]_vars

\* C8 (shut_down): a shut_down call made when the session has already been shut
\* down changes no state of the layer and makes no collaborator call.
C8_ShutDownIdempotent ==
  [][(has_shut_down /\ sd_calls' = sd_calls + 1) =>
       UNCHANGED <<engine_vars, epilog_alarm, firmware_is_configured, has_shut_down,
                   thread, incoming_packets, collab_log, buf, free_count>>]_vars
C8_Witness ==
  /\ has_shut_down
  /\ sd_calls >= 2
  /\ sessions = MaxSessions
  /\ "vendor_close" \in Range(collab_log)

\* C11 (firmware_config_callback): the callback hands its argument on to
\* callbacks->preload_finished, and firmware_is_configured becomes true only in
\* a callback whose argument is true.
C11_FirmwareResultPropagated ==
  [][(last_fw' # last_fw /\ last_fw'.called) =>
       /\ last_fw'.preload_finished = last_fw'.success
       /\ (firmware_is_configured' /\ ~firmware_is_configured) => last_fw'.success]_vars

-----------------------------------------------------------------------------
\* The pending-response list between two threads: the handlers of the HCI
\* thread and command_timed_out on the alarm thread, each taken apart at its
\* pthread_mutex_lock / pthread_mutex_unlock calls.

HCI_THREAD   == "hci_thread"
ALARM_THREAD == "alarm_thread"

\* An access to the list or to one of its entries, with the thread that makes
\* it and the holder of the mutex at that moment.
Access(op, by, holder) == [op |-> op, thread |-> by, lock |-> holder]

LockEvents == { <<HCI_COMMAND_COMPLETE_EVT, 4, 1, 1, 1, 0>>,
                <<HCI_COMMAND_COMPLETE_EVT, 4, 1, 173, 222, 0>>,
                <<HCI_COMMAND_STATUS_EVT, 4, 0, 1, 2, 1>> }

\* event_command_ready with credits: fixed_queue_dequeue, command_credits--,
\* and on to pthread_mutex_lock.
ecr_dequeue ==
  /\ Running
  /\ hci_pc = "idle"
  /\ command_queue # <<>>
  /\ has_credit(command_credits)
  /\ \E d \in {fixed_queue_dequeue(command_queue)} :
       /\ command_queue' = d.queue
       /\ hci_tmp' = [NoLocals EXCEPT !.found = TRUE, !.wait_entry = d.item]
  /\ command_credits' = command_credits - 1
  /\ hci_pc' = "ecr_lock"
  /\ UNCHANGED <<packet_queue, commands_pending_response, commands_pending_response_lock,
                 command_response_alarm, life_vars, rx_vars, obs_vars, alarm_pc,
                 list_access, alive>>

\* event_command_ready: pthread_mutex_lock returns, list_append.
ecr_lock_append ==
  /\ alive
  /\ hci_pc = "ecr_lock"
  /\ commands_pending_response_lock = "free"
  /\ commands_pending_response' = Append(commands_pending_response, hci_tmp.wait_entry)
  /\ commands_pending_response_lock' = HCI_THREAD
  /\ list_access' = Access("list_append", HCI_THREAD, HCI_THREAD)
  /\ hci_pc' = "ecr_locked"
  /\ UNCHANGED <<command_credits, command_queue, packet_queue, command_response_alarm,
                 life_vars, rx_vars, obs_vars, hci_tmp, alarm_pc, alive>>

\* event_command_ready: pthread_mutex_unlock, wake_assert, fragment_and_dispatch,
\* transmit_done.
ecr_unlock_dispatch ==
  /\ alive
  /\ hci_pc = "ecr_locked"
  /\ commands_pending_response_lock' = "free"
  /\ dispatched' = Append(dispatched, hci_tmp.wait_entry.command)
  /\ buf' = [buf EXCEPT ![hci_tmp.wait_entry.command] = "pending"]
  /\ credit_window' = [credit_window EXCEPT !.dispatched = @ + 1]
  /\ hci_pc' = "ecr_restart"
  /\ UNCHANGED <<command_credits, command_queue, packet_queue, commands_pending_response,
                 command_response_alarm, life_vars, rx_vars, free_count, enqueued,
                 matched, watchdog_fired, last_filter, hci_tmp, alarm_pc, list_access,
                 alive>>

\* restart_command_timeout_alarm as the HCI thread runs it: list_is_empty, then
\* alarm_cancel or alarm_set.
hci_restart_alarm ==
  /\ list_access' = Access("list_is_empty", HCI_THREAD, commands_pending_response_lock)
  /\ command_response_alarm' = restart_command_timeout_alarm(commands_pending_response)

\* event_command_ready: restart_command_timeout_alarm, return.
ecr_restart ==
  /\ alive
  /\ hci_pc = "ecr_restart"
  /\ hci_restart_alarm
  /\ hci_pc' = "idle"
  /\ hci_tmp' = NoLocals
  /\ UNCHANGED <<command_credits, command_queue, packet_queue, commands_pending_response,
                 commands_pending_response_lock, life_vars, rx_vars, obs_vars,
                 alarm_pc, alive>>

\* filter_incoming_event for a command-complete or command-status event: the
\* credits, and on to the pthread_mutex_lock of get_waiting_command.
flt_credits(data) ==
  /\ Running
  /\ hci_pc = "idle"
  /\ \E f \in {filter_incoming_event(data, NoJunk, command_credits,
                                     commands_pending_response)} :
       /\ command_credits' = f.credits
       /\ hci_tmp' = [NoLocals EXCEPT !.event_code = f.event_code, !.packet = data]
       /\ credit_window' = [credits |-> f.credits, dispatched |-> 0]
  /\ hci_pc' = "gwc_lock"
  /\ UNCHANGED <<command_queue, packet_queue, commands_pending_response,
                 commands_pending_response_lock, command_response_alarm, life_vars,
                 rx_vars, buf, free_count, enqueued, dispatched, matched, watchdog_fired,
                 last_filter, alarm_pc, list_access, alive>>

\* get_waiting_command: pthread_mutex_lock returns, the scan and list_remove.
flt_lock_remove ==
  /\ alive
  /\ hci_pc = "gwc_lock"
  /\ commands_pending_response_lock = "free"
  /\ \E f \in {filter_incoming_event(hci_tmp.packet, NoJunk, command_credits,
                                     commands_pending_response)} :
       /\ commands_pending_response' = f.list
       /\ hci_tmp' = [hci_tmp EXCEPT !.found = f.found, !.wait_entry = f.wait_entry]
       /\ matched' = IF f.found THEN matched \cup {f.wait_entry.command} ELSE matched
  /\ commands_pending_response_lock' = HCI_THREAD
  /\ list_access' = Access("scan_remove", HCI_THREAD, HCI_THREAD)
  /\ hci_pc' = "gwc_locked"
  /\ UNCHANGED <<command_credits, command_queue, packet_queue, command_response_alarm,
                 life_vars, rx_vars, buf, free_count, enqueued, dispatched,
                 watchdog_fired, last_filter, credit_window, alarm_pc, alive>>

\* get_waiting_command: pthread_mutex_unlock and return; the callback of the
\* matched entry.
flt_unlock ==
  /\ alive
  /\ hci_pc = "gwc_locked"
  /\ commands_pending_response_lock' = "free"
  /\ hci_pc' = "flt_restart"
  /\ UNCHANGED <<command_credits, command_queue, packet_queue, commands_pending_response,
                 command_response_alarm, life_vars, rx_vars, obs_vars, hci_tmp,
                 alarm_pc, list_access, alive>>

\* filter_incoming_event from the label intercepted: the alarm and the frees.
flt_restart ==
  /\ alive
  /\ hci_pc = "flt_restart"
  /\ hci_restart_alarm
  /\ \E id \in {hci_tmp.wait_entry.command} :
     \E fr \in {filter_frees(hci_tmp.event_code, hci_tmp.found, hci_tmp.wait_entry)} :
       /\ buf' = IF ~hci_tmp.found THEN buf
                 ELSE [buf EXCEPT ![id] = IF fr.command = 0 THEN "status_callback"
                                          ELSE "freed"]
       /\ free_count' = IF ~hci_tmp.found THEN free_count
                        ELSE [free_count EXCEPT ![id] = @ + fr.command]
  /\ hci_pc' = "idle"
  /\ hci_tmp' = NoLocals
  /\ UNCHANGED <<command_credits, command_queue, packet_queue, commands_pending_response,
                 commands_pending_response_lock, life_vars, rx_vars, enqueued, dispatched,
                 matched, watchdog_fired, last_filter, credit_window, alarm_pc, alive>>

\* command_timed_out: the alarm is due and its callback takes the mutex.
cto_lock ==
  /\ alive
  /\ alarm_pc = "idle"
  /\ alarm_expired(command_response_alarm)
  /\ commands_pending_response_lock = "free"
  /\ command_response_alarm' = alarm_idle
  /\ commands_pending_response_lock' = ALARM_THREAD
  /\ alarm_pc' = "cto_locked"
  /\ UNCHANGED <<command_credits, command_queue, packet_queue, commands_pending_response,
                 life_vars, rx_vars, obs_vars, hci_pc, hci_tmp, list_access, alive>>

\* command_timed_out: list_is_empty and the return on an empty list, else
\* list_front and pthread_mutex_unlock.
cto_check ==
  /\ alive
  /\ alarm_pc = "cto_locked"
  /\ IF commands_pending_response = <<>>
     THEN /\ list_access' = Access("list_is_empty", ALARM_THREAD,
                                   commands_pending_response_lock)
          /\ alarm_pc' = "idle"
          /\ UNCHANGED commands_pending_response_lock
     ELSE /\ list_access' = Access("list_front", ALARM_THREAD,
                                   commands_pending_response_lock)
          /\ alarm_pc' = "cto_unlocked"
          /\ commands_pending_response_lock' = "free"
  /\ UNCHANGED <<command_credits, command_queue, packet_queue, commands_pending_response,
                 command_response_alarm, life_vars, rx_vars, obs_vars, hci_pc, hci_tmp,
                 alive>>

\* command_timed_out: the read of wait_entry->opcode for the log line, then
\* kill(getpid(), SIGKILL).
cto_kill ==
  /\ alive
  /\ alarm_pc = "cto_unlocked"
  /\ list_access' = Access("entry_opcode", ALARM_THREAD, commands_pending_response_lock)
  /\ alarm_pc' = "idle"
  /\ alive' = FALSE
  /\ watchdog_fired' = TRUE
  /\ UNCHANGED <<engine_vars, life_vars, rx_vars, buf, free_count, enqueued, dispatched,
                 matched, last_filter, credit_window, hci_pc, hci_tmp>>

NextLock ==
  \/ \E c \in CommandSet, cb \in CallbackSet : transmit_command(c, cb, TRUE)
  \/ ecr_dequeue
  \/ ecr_lock_append
  \/ ecr_unlock_dispatch
  \/ ecr_restart
  \/ \E e \in LockEvents : flt_credits(e)
  \/ flt_lock_remove
  \/ flt_unlock
  \/ flt_restart
  \/ cto_lock
  \/ cto_check
  \/ cto_kill
  \/ Tick

SpecLock == Init /\ [][NextLock]_vars

\* C12: every access to the pending-response list or to one of its entries is
\* made by a thread that holds commands_pending_response_lock.
C12_ListAccessUnderLock ==
  list_access.op # "none" => list_access.lock = list_access.thread

\* C20: commands_pending_response_lock is never left held by a function that
\* has returned: with both threads outside their handlers the mutex is free.
C20_LockNeverLeftHeld ==
  /\ alarm_pc = "idle" => commands_pending_response_lock # ALARM_THREAD
  /\ hci_pc = "idle" => commands_pending_response_lock # HCI_THREAD

-----------------------------------------------------------------------------
\* C13: a command reaches the fragmenter only in a step taken with
\* command_credits > 0, which takes exactly the head of the command queue;
\* with command_credits = 0 no step takes a command off the queue, adds to the
\* pending-response list or dispatches a command, and only an event changes
\* the credits; and the commands dispatched since
\* the latest command event never exceed the credits that event set (1 before
\* the first event).
C13_DispatchOnlyWithCredit ==
  [][ /\ DispatchedCommands' # DispatchedCommands =>
           /\ command_credits > 0
           /\ DispatchStep
           /\ Len(DispatchedCommands') = Len(DispatchedCommands) + 1
      /\ command_credits = 0 =>
           /\ DispatchedCommands' = DispatchedCommands
           /\ Len(command_queue') >= Len(command_queue)
           /\ Len(commands_pending_response') <= Len(commands_pending_response)
           /\ command_credits' # command_credits => \E e \in EventSet : FilterStepFor(e)
      /\ credit_window'.dispatched <= credit_window'.credits ]_vars

\* C13 witness: the only credit is used up by a dispatched command while another
\* command waits in the queue.
C13_Witness ==
  /\ command_credits = 0
  /\ command_queue # <<>>
  /\ credit_window.dispatched = credit_window.credits
  /\ credit_window.dispatched > 0

-----------------------------------------------------------------------------
\* A step in which event_packet_ready dispatched the head of the packet queue.
PacketDispatchStep ==
  /\ packet_queue # <<>>
  /\ packet_queue' = Tail(packet_queue)
  /\ dispatched' = Append(dispatched, Head(packet_queue))

DispatchedPackets == SelectSeq(dispatched, LAMBDA id : id \notin Range(enqueued))

\* The data packets handed to transmit_downward so far, in the order of the
\* calls.
EnqueuedPackets ==
  SelectSeq([i \in 1..Len(buf) |-> i],
            LAMBDA id : buf[id] \in {"packet_queue", "fragmenter"})

\* C14: event_packet_ready can run whenever the packet queue holds a packet,
\* whatever command_credits is; a step that dispatches a data packet takes the
\* head of the packet queue and leaves command_credits, the command queue, the
\* pending-response list and the watchdog alarm as they were; and the packets
\* dispatched and those still queued are, in this order, the packets in the
\* order they were enqueued.
C14_PacketsDispatchedRegardlessOfCredits ==
  /\ [](Running /\ packet_queue # <<>> => ENABLED event_packet_ready)
  /\ [](DispatchedPackets \o packet_queue = EnqueuedPackets)
  /\ [][DispatchedPackets' # DispatchedPackets =>
          /\ PacketDispatchStep
          /\ UNCHANGED <<command_credits, command_queue, commands_pending_response,
                         command_response_alarm>>]_vars

\* C14 witness: a data packet was dispatched after a command used up the only
\* credit, and no event has refreshed the credits since.
C14_Witness ==
  /\ command_credits = 0
  /\ credit_window = [credits |-> 1, dispatched |-> 1]
  /\ Len(DispatchedPackets) = 1
  /\ Len(dispatched) = 2
  /\ dispatched[2] \notin Range(enqueued)

-----------------------------------------------------------------------------
\* C15 (hal_says_data_ready): a call completes at most one packet and calls
\* hal->packet_finished once if it completed one and not at all otherwise; a
\* call that completed a packet stopped reading at the last byte of a packet,
\* whatever the HAL still holds; a call that completed none read every byte the
\* HAL held.
C15_OnePacketPerCall ==
  [][\A t \in InboundTypes :
       LET completed == Len(rx_log'[t]) - Len(rx_log[t])
           calls == packet_finished_calls'[t] - packet_finished_calls[t]
       IN  /\ completed \in {0, 1}
           /\ calls = completed
           /\ completed = 1 =>
                /\ hal_read'[t] <= hal_arrived[t]
                /\ PartialTail(t, ReadSoFar(t)') = <<>>
           /\ (completed = 0 /\ hal_read'[t] # hal_read[t]) =>
                hal_read'[t] = hal_arrived[t]]_vars

\* C15 witness: a call completed the first ACL packet and returned although the
\* HAL holds bytes of the next one.
C15_Witness ==
  /\ Len(rx_log[DATA_TYPE_ACL]) = 1
  /\ packet_finished_calls[DATA_TYPE_ACL] = 1
  /\ PartialTail(DATA_TYPE_ACL, ReadSoFar(DATA_TYPE_ACL)) = <<>>
  /\ hal_arrived[DATA_TYPE_ACL] > hal_read[DATA_TYPE_ACL]

-----------------------------------------------------------------------------
\* C16: when event_command_ready (having dispatched a command) or
\* filter_incoming_event (for a command-complete or command-status event)
\* returns, command_response_alarm is armed for COMMAND_PENDING_TIMEOUT if the
\* pending-response list holds an entry and is not armed if the list is empty.
C16_AlarmFollowsList ==
  [][(hci_pc \in {"ecr_restart", "flt_restart"} /\ hci_pc' = "idle") =>
       IF commands_pending_response' = <<>>
       THEN ~command_response_alarm'.armed
       ELSE /\ command_response_alarm'.armed
            /\ command_response_alarm'.remaining = COMMAND_PENDING_TIMEOUT]_vars

\* C16 witness: the event for the only pending command was matched and the
\* filter returned with the alarm cancelled.
C16_Witness ==
  /\ hci_pc = "idle"
  /\ list_access = Access("list_is_empty", HCI_THREAD, "free")
  /\ matched # {}
  /\ dispatched # <<>>
  /\ commands_pending_response = <<>>
  /\ ~command_response_alarm.armed
  /\ alive

-----------------------------------------------------------------------------
\* shut_down on a running session whose handlers run step by step: the caller
\* of shut_down waits in thread_join until the HCI thread has been stopped and
\* has left the handler it is in.

NextStop ==
  \/ NextLock
  \/ \E success \in BOOLEAN : firmware_config_callback(success)
  \/ shut_down
  \/ event_epilog
  \/ epilog_finished_callback
  \/ epilog_wait_timer_expired
  \/ shut_down_joined

SpecStop == Init /\ [][NextStop]_vars

\* Time passes, the two threads and the alarm callbacks get to run, and the
\* caller of shut_down goes on once thread_join lets it; the vendor library may
\* never call epilog_finished_callback.
FairSpecStop ==
  /\ SpecStop
  /\ WF_vars(Tick)
  /\ WF_vars(ecr_dequeue)
  /\ WF_vars(ecr_lock_append)
  /\ WF_vars(ecr_unlock_dispatch)
  /\ WF_vars(ecr_restart)
  /\ WF_vars(flt_lock_remove)
  /\ WF_vars(flt_unlock)
  /\ WF_vars(flt_restart)
  /\ WF_vars(cto_lock)
  /\ WF_vars(cto_check)
  /\ WF_vars(cto_kill)
  /\ WF_vars(event_epilog)
  /\ WF_vars(epilog_wait_timer_expired)
  /\ WF_vars(shut_down_joined)

\* C17: a shut_down call that went past the has_shut_down test returns with
\* has_shut_down = true (unless the watchdog killed the process first).
C17_ShutDownTerminates ==
  (sd_pc # "idle") ~> (has_shut_down \/ ~alive)

-----------------------------------------------------------------------------
\* The postload chain: do_postload posts event_postload to the HCI thread,
\* event_postload submits VENDOR_CONFIGURE_SCO, and sco_config_callback starts
\* the controller's ACL size fetch.

\* What vendor->send_async_command may return: 0 for a submitted command, a
\* negative value for a submission that failed.
SendAsyncReturns == {-2, -1, 0}

\* sco_config_callback(success)
sco_config_callback(p) == [p EXCEPT !.pc = "done", !.begin_acl_size_fetch = @ + 1]

\* do_postload()
do_postload ==
  /\ Running
  /\ postload.pc = "idle"
  /\ postload' = [postload EXCEPT !.pc = "posted"]
  /\ UNCHANGED <<engine_vars, epilog_alarm, firmware_is_configured, has_shut_down, thread,
                 sd_pc, collab_log, sd_calls, sessions, last_fw, rx_vars, obs_vars,
                 thread_vars, alive>>

\* event_postload(context) on the HCI thread, send_async_command returning ret.
event_postload(ret) ==
  /\ Running
  /\ postload.pc = "posted"
  /\ postload' = IF ret = -1
                 THEN sco_config_callback([postload EXCEPT !.ret = ret])
                 ELSE [postload EXCEPT !.pc = "submitted", !.ret = ret]
  /\ UNCHANGED <<engine_vars, epilog_alarm, firmware_is_configured, has_shut_down, thread,
                 sd_pc, collab_log, sd_calls, sessions, last_fw, rx_vars, obs_vars,
                 thread_vars, alive>>

\* The vendor library answers a VENDOR_CONFIGURE_SCO command it accepted by
\* calling sco_config_callback.
vendor_sco_config_callback ==
  /\ Running
  /\ postload.pc = "submitted"
  /\ postload.ret >= 0
  /\ postload' = sco_config_callback(postload)
  /\ UNCHANGED <<engine_vars, epilog_alarm, firmware_is_configured, has_shut_down, thread,
                 sd_pc, collab_log, sd_calls, sessions, last_fw, rx_vars, obs_vars,
                 thread_vars, alive>>

NextPostload ==
  \/ do_postload
  \/ \E ret \in SendAsyncReturns : event_postload(ret)
  \/ vendor_sco_config_callback
  \/ \E c \in CommandSet, cb \in CallbackSet : transmit_command(c, cb, TRUE)
  \/ transmit_downward_data
  \/ event_command_ready
  \/ event_packet_ready

SpecPostload == Init /\ [][NextPostload]_vars

\* The HCI thread runs the work posted to it, and the vendor library calls back
\* for every command it accepted.
FairSpecPostload ==
  /\ SpecPostload
  /\ WF_vars(\E ret \in SendAsyncReturns : event_postload(ret))
  /\ WF_vars(vendor_sco_config_callback)
  /\ WF_vars(event_command_ready)
  /\ WF_vars(event_packet_ready)

\* C18: after do_postload, controller->begin_acl_size_fetch is eventually
\* called, whatever send_async_command returned.
C18_PostloadReachesAclSizeFetch ==
  (postload.pc = "posted") ~> (postload.begin_acl_size_fetch > 0)

-----------------------------------------------------------------------------
\* C19 (hal_says_data_ready): every completed packet has len equal to the
\* preamble size of its type plus the body length its preamble encodes, and
\* holds each body byte at the offset preamble size + position in the body, for
\* every body length up to 65535 for ACL.
C19_LenAndBodyOffsets ==
  \A t \in InboundTypes :
    rx_failed[t] = {} =>
      \A i \in 1..Len(rx_log[t]) :
        LET sent == ParsePackets(t, wire_bytes(t))[i]
            p == PreambleSize(t)
            n == BodyLengthRule(t, SubSeq(sent, 1, p))
        IN  /\ rx_log[t][i].len = p + n
            /\ \A k \in 1..n : rx_log[t][i].data[p + k] = sent[p + k]

-----------------------------------------------------------------------------
\* C21 (filter_incoming_event): for a command-complete or command-status event
\* the credit and opcode fields lie inside the packet, and the credits and the
\* opcode the filter took are the bytes of the packet at those fields.
C21_FilterReadsInsidePacket ==
  last_filter.intercepted =>
    /\ HasCreditByte(last_filter.data)
    /\ HasOpcodeField(last_filter.data)
    /\ last_filter.credits = CreditByte(last_filter.data)
    /\ last_filter.opcode = OpcodeField(last_filter.data)

-----------------------------------------------------------------------------
\* The outbound buffers the layer owns: the command buffers of the wait entries
\* in command_queue and in commands_pending_response, and the data packets in
\* packet_queue.
OwnedBuffers ==
  { command_queue[i].command : i \in 1..Len(command_queue) }
    \cup { commands_pending_response[i].command : i \in 1..Len(commands_pending_response) }
    \cup Range(packet_queue)

\* C22 (shut_down): the step in which shut_down completes hands every buffer
\* the layer owned to buffer_allocator->free exactly once.
C22_ShutDownFreesOwnedBuffers ==
  [][(has_shut_down' /\ ~has_shut_down) =>
       \A id \in OwnedBuffers :
         /\ buf'[id] = "freed"
         /\ free_count'[id] = free_count[id] + 1]_vars

====
